---------------------------- MODULE Spec2Model ----------------------------
(***************************************************************************)
(* A model of the caption search engine of srst-harken.                    *)
(*                                                                         *)
(*   src/harken.py         parse_vtt, build_index, read_corpus, Search     *)
(*   src/harken/harken.py  SearchResult.offset, UttaleAPI.search_text      *)
(*                                                                         *)
(* A Python str is a sequence of one-character strings, so that lower(),   *)
(* strip(), split() and re.findall() are computed character by character.  *)
(***************************************************************************)
EXTENDS Integers, Sequences, FiniteSets, TLC

VARIABLES
    docs,       \* Search.docs: doc_id -> document
    plist,      \* Search.plist: term -> set of doc_id (a defaultdict(set))
    fits,       \* number of Search.fit calls made on the object
    query,      \* argument of the last Search.transform call (None before one)
    result,     \* value returned by the last Search.transform call
    probe,      \* one remembered (query, result) pair since the last fit
    text,       \* input of the tokenizer / of the query splitter
    tokens,     \* tokenize(text) as Search.fit computes it (None before)
    terms,      \* query.lower().split() as Search.transform computes it
    content,    \* parse_vtt: the lines of the caption file
    layout,     \* the blocks the caption file was written from (None: raw lines)
    parsed,     \* parse_vtt: how the call ended (None before the call)
    builder,    \* the corpus build that runs: "build_index" or "read_corpus"
    file_no,    \* corpus build: position in the list of files, from 1
    line_no,    \* corpus build: i of enumerate(slurp_lines(...))
    corpus,     \* corpus build: the local list docs
    doc_id,     \* read_corpus: the counter doc_id
    n_cues,     \* offset: number of cues of the result's file
    hit,        \* offset: position of the cue the result was made from, or
                \* -1 when no cue of the file has the result's start
    reached,    \* offset: whether the request to the server succeeded
    offset_value, \* offset: the value returned (None before the call)
    built,      \* the documents a corpus build made of the caption file (None before)
    sub_lines,  \* SubtitleLines.lines: for each label, whether it has the class "active"
    starts,     \* SubtitleLines.starts
    current_line, \* SubtitleLines.current_line
    call        \* the last call made on the SubtitleLines (None before one)

searchVars == <<docs, plist, fits, query, result, probe>>

textVars == <<text, tokens, terms>>

vttVars == <<content, layout, parsed>>

corpusVars == <<builder, file_no, line_no, corpus, doc_id>>

offsetVars == <<n_cues, hit, reached, offset_value>>

buildVars == <<built>>

linesVars == <<sub_lines, starts, current_line, call>>

vars == <<searchVars, textVars, vttVars, corpusVars, offsetVars, buildVars, linesVars>>

\* an optional value: None, or Some(x) whose value is Some(x)[1]
None == <<>>

Some(x) == <<x>>

(***************************************************************************)
(* Bounds of the model.                                                    *)
(***************************************************************************)
MaxTextLen == 4
MaxDocs == 2
MaxFits == 2

(***************************************************************************)
(* Characters.                                                             *)
(***************************************************************************)
\* the characters texts are drawn from: letters of both cases, a digit, an
\* extended letter of both cases, two word characters outside the token
\* class, and separators
Alphabet == {"a", "B", "1", "Å", "_", "é", " ", ","}

\* str.lower() on one character
lower_char(c) ==
    CASE c = "A" -> "a"
      [] c = "B" -> "b"
      [] c = "Z" -> "z"
      [] c = "Å" -> "å"
      [] c = "Ø" -> "ø"
      [] c = "Æ" -> "æ"
      [] OTHER -> c

\* str.lower()
lower(s) == [i \in 1..Len(s) |-> lower_char(s[i])]

\* the character class [a-zA-Z0-9åøæÅØÆ] of the tokenizer's pattern
in_class(c) ==
    c \in {"a", "b", "z", "A", "B", "Z", "0", "1", "2",
           "å", "ø", "æ", "Å", "Ø", "Æ"}

\* \w of a str pattern: Unicode letters, digits and the underscore
is_word(c) == in_class(c) \/ c \in {"_", "é"}

\* the characters str.strip() and str.split() treat as whitespace
is_space(c) == c \in {" ", "\t", "\n"}

(***************************************************************************)
(* re.findall(r'\b[a-zA-Z0-9åøæÅØÆ]+\b', text.lower())                     *)
(***************************************************************************)
\* \b at position p (between s[p-1] and s[p]): exactly one side is a word
\* character; the outside of the string counts as a non-word character
word_boundary(s, p) ==
    LET before == p > 1 /\ is_word(s[p - 1])
        after == p <= Len(s) /\ is_word(s[p])
    IN before # after

\* the ends q (exclusive) at which the pattern matches from p: \b at p, one
\* or more class characters p..q-1, \b at q
match_ends(s, p) ==
    {q \in (p + 1)..(Len(s) + 1) :
        /\ word_boundary(s, p)
        /\ \A i \in p..(q - 1) : in_class(s[i])
        /\ word_boundary(s, q)}

\* the greedy + takes the longest match
Max(S) == CHOOSE x \in S : \A y \in S : y <= x

RECURSIVE findall(_, _)
\* scan from p: a match yields a token and the scan resumes at its end, a
\* failure moves the scan one character on
findall(s, p) ==
    IF p > Len(s) THEN <<>>
    ELSE IF match_ends(s, p) # {}
         THEN LET q == Max(match_ends(s, p))
              IN <<SubSeq(s, p, q - 1)>> \o findall(s, q)
         ELSE findall(s, p + 1)

tokenize(t) == findall(lower(t), 1)

(***************************************************************************)
(* str.split() without arguments: the maximal runs of non-whitespace.      *)
(***************************************************************************)
RECURSIVE split_from(_, _, _)
\* cur is the word being collected
split_from(s, p, cur) ==
    IF p > Len(s) THEN (IF cur = <<>> THEN <<>> ELSE <<cur>>)
    ELSE IF is_space(s[p])
         THEN (IF cur = <<>> THEN <<>> ELSE <<cur>>) \o split_from(s, p + 1, <<>>)
         ELSE split_from(s, p + 1, Append(cur, s[p]))

split(s) == split_from(s, 1, <<>>)

\* the terms Search.transform looks up
query_terms(q) == split(lower(q))

Range(f) == {f[i] : i \in DOMAIN f}


(***************************************************************************)
(* class Search                                                            *)
(***************************************************************************)
\* document contents the corpora are drawn from: "a B," and "a"
Contents == {<<"a", " ", "B", ",">>, <<"a">>}

\* query strings: "", "a", "a b", "z", "a z", "B,"
Queries ==
    {<<>>, <<"a">>, <<"a", " ", "b">>, <<"z">>, <<"a", " ", "z">>, <<"B", ",">>}

\* a document collection as read_corpus numbers it: ids 0, 1, ... in order
Corpora ==
    UNION {{[i \in 1..n |-> [id |-> i - 1, title |-> "f", content |-> f[i]]] :
                f \in [1..n -> Contents]} : n \in 0..MaxDocs}

\* {doc['id']: doc for doc in documents}: a later document replaces an
\* earlier one with the same id
docs_of(documents) ==
    [d \in {documents[i].id : i \in DOMAIN documents} |->
        documents[Max({i \in DOMAIN documents : documents[i].id = d})]]

\* plist_after_fit with the loop over the documents stopping one short
plist_after_fit_short(pl, documents) ==
    LET n == Len(documents) - 1
        added(t) == {documents[i].id : i \in
                        {j \in 1..n : t \in Range(tokenize(documents[j].content))}}
        keys == DOMAIN pl \cup
                UNION {Range(tokenize(documents[i].content)) : i \in 1..n}
    IN [t \in keys |-> (IF t \in DOMAIN pl THEN pl[t] ELSE {}) \cup added(t)]

\* self.plist[term].add(doc_id) for every term of every document; the
\* entries the defaultdict already holds are kept
plist_after_fit(pl, documents) ==
    LET added(t) == {documents[i].id : i \in
                        {j \in DOMAIN documents :
                            t \in Range(tokenize(documents[j].content))}}
        keys == DOMAIN pl \cup
                UNION {Range(tokenize(documents[i].content)) : i \in DOMAIN documents}
    IN [t \in keys |-> (IF t \in DOMAIN pl THEN pl[t] ELSE {}) \cup added(t)]

\* self.plist[term]: reading a missing key of a defaultdict(set) stores an
\* empty set under it
plist_after_get(pl, t) ==
    IF t \in DOMAIN pl THEN pl ELSE [k \in DOMAIN pl \cup {t} |-> IF k = t THEN {} ELSE pl[k]]

RECURSIVE intersect_rest_union(_, _, _)
\* intersect_rest with union in the place of intersection
intersect_rest_union(pl, res, rest) ==
    IF rest = <<>> THEN res
    ELSE intersect_rest_union(pl,
                        IF Head(rest) \in DOMAIN pl THEN res \cup pl[Head(rest)] ELSE res,
                        Tail(rest))

RECURSIVE intersect_rest(_, _, _)
\* for term in terms[1:]: if term in self.plist: result = result & plist[term]
intersect_rest(pl, res, rest) ==
    IF rest = <<>> THEN res
    ELSE intersect_rest(pl,
                        IF Head(rest) \in DOMAIN pl THEN res \cap pl[Head(rest)] ELSE res,
                        Tail(rest))

RECURSIVE sorted(_)
\* sorted(list(result))
sorted(S) ==
    IF S = {} THEN <<>>
    ELSE LET m == CHOOSE x \in S : \A y \in S : x <= y
         IN <<m>> \o sorted(S \ {m})

\* the list Search.transform(q) returns when the postings are pl
transform_result(pl, q) ==
    LET ts == query_terms(q)
    IN IF ts = <<>> THEN <<>>
       ELSE LET pl1 == plist_after_get(pl, Head(ts))
            IN sorted(intersect_rest(pl1, pl1[Head(ts)], Tail(ts)))

\* the postings Search.transform(q) leaves behind
transform_plist(pl, q) ==
    LET ts == query_terms(q)
    IN IF ts = <<>> THEN pl ELSE plist_after_get(pl, Head(ts))

InitSearch ==
    /\ docs = <<>>
    /\ plist = <<>>
    /\ fits = 0
    /\ query = None
    /\ result = None
    /\ probe = None

InitTextIdle ==
    /\ text = <<>>
    /\ tokens = None
    /\ terms = None

\* Search.fit(documents)
fit ==
    \E documents \in Corpora :
        /\ fits < MaxFits
        /\ docs' = docs_of(documents)
        /\ plist' = plist_after_fit(plist, documents)
        /\ fits' = fits + 1
        /\ query' = None
        /\ result' = None
        /\ probe' = None
        /\ UNCHANGED <<textVars, vttVars, corpusVars, offsetVars, buildVars, linesVars>>

\* Search.transform(q); the caller may keep the answer to compare later
transform ==
    \E q \in Queries, keep \in BOOLEAN :
        /\ query' = Some(q)
        /\ result' = Some(transform_result(plist, q))
        /\ plist' = transform_plist(plist, q)
        /\ probe' = IF probe = None /\ keep /\ fits > 0
                    THEN Some([query |-> q, result |-> transform_result(plist, q)])
                    ELSE probe
        /\ UNCHANGED <<docs, fits, textVars, vttVars, corpusVars, offsetVars, buildVars, linesVars>>

InitVttIdle ==
    /\ content = <<>>
    /\ layout = None
    /\ parsed = None

InitCorpusIdle ==
    /\ builder = "idle"
    /\ file_no = 1
    /\ line_no = 0
    /\ corpus = <<>>
    /\ doc_id = 0

InitOffsetIdle ==
    /\ n_cues = 0
    /\ hit = 0
    /\ reached = TRUE
    /\ offset_value = None

InitBuildIdle == built = None

\* SubtitleLines.__init__: reset()
InitLines ==
    /\ sub_lines = <<>>
    /\ starts = <<>>
    /\ current_line = 0
    /\ call = None

Init ==
    /\ InitSearch
    /\ InitTextIdle
    /\ InitVttIdle
    /\ InitCorpusIdle
    /\ InitOffsetIdle
    /\ InitBuildIdle
    /\ InitLines

Next == fit \/ transform

Spec == Init /\ [][Next]_vars

(***************************************************************************)
(* The tokenizer of Search.fit and the query splitting of Search.transform *)
(* applied to one text.                                                    *)
(***************************************************************************)
Texts == UNION {[1..n -> Alphabet] : n \in 0..MaxTextLen}

InitText ==
    /\ InitSearch
    /\ InitBuildIdle
    /\ InitLines
    /\ InitVttIdle
    /\ InitCorpusIdle
    /\ InitOffsetIdle
    /\ text \in Texts
    /\ tokens = None
    /\ terms = None

\* tokenize(content) in Search.fit
TokenizeText ==
    /\ tokens = None
    /\ tokens' = Some(tokenize(text))
    /\ UNCHANGED <<searchVars, vttVars, corpusVars, offsetVars, text, terms, buildVars, linesVars>>

\* query.lower().split() in Search.transform
SplitQuery ==
    /\ terms = None
    /\ terms' = Some(query_terms(text))
    /\ UNCHANGED <<searchVars, vttVars, corpusVars, offsetVars, text, tokens, buildVars, linesVars>>

NextText == TokenizeText \/ SplitQuery

SpecText == InitText /\ [][NextText]_vars


(***************************************************************************)
(* Claims about Search, checked under Spec.                                *)
(***************************************************************************)
\* the term occurs in no indexed document: it has no entry in the postings,
\* or an empty one
Absent(t) == t \notin DOMAIN plist \/ plist[t] = {}

\* the ids of a returned list
Ids(r) == Range(r)

\* C1: transform(query) returns the empty list whenever at least one term of
\* the query is absent from the postings, whatever position the term has.
C1_AbsentTermGivesEmpty ==
    query # None =>
        ((\E i \in DOMAIN query_terms(query[1]) : Absent(query_terms(query[1])[i]))
            => result[1] = <<>>)

\* C2: after a fit, transform(q) returns the same list every time it is
\* called with the same q, whichever transform calls were made in between.
C2_SameQuerySameResult ==
    (probe # None /\ query # None /\ query[1] = probe[1].query)
        => result[1] = probe[1].result

\* single terms a query is extended with
Words == {<<"a">>, <<"b">>, <<"z">>}

\* the query string q followed by the word t
Extended(q, t) == IF q = <<>> THEN t ELSE q \o <<" ">> \o t

AllTerms ==
    DOMAIN plist
        \cup UNION {Range(tokenize(docs[d].content)) : d \in DOMAIN docs}
        \cup UNION {Range(query_terms(q)) : q \in Queries}

\* C6: after fit on a new Search over documents with unique ids, and through
\* any later transform calls, d is in plist[T] if and only if tokenizing the
\* content of docs[d] yields T.
C6_PostingsInvariant ==
    fits = 1 =>
        /\ \A T \in DOMAIN plist : plist[T] \subseteq DOMAIN docs
        /\ \A T \in AllTerms, d \in DOMAIN docs :
              (T \in DOMAIN plist /\ d \in plist[T])
                  <=> T \in Range(tokenize(docs[d].content))

\* C6 witness: one fit of two documents, then a transform whose first term
\* was not indexed and now has an (empty) entry, beside a non-empty entry.
C6_Witness ==
    /\ fits = 1
    /\ Cardinality(DOMAIN docs) = 2
    /\ query = Some(<<"z">>)
    /\ <<"z">> \in DOMAIN plist
    /\ \E T \in DOMAIN plist : plist[T] # {}

(***************************************************************************)
(* Claims about the tokenizer, checked under SpecText.                     *)
(***************************************************************************)
\* C4: the terms transform looks up are exactly the tokens the tokenizer of
\* fit extracts from the same string.
C4_QueryTermsAreIndexTokens ==
    (tokens # None /\ terms # None) => terms[1] = tokens[1]

\* the positions where a maximal run of class characters starts
run_starts(s) ==
    {i \in 1..Len(s) : in_class(s[i]) /\ (i = 1 \/ ~in_class(s[i - 1]))}

\* the last position of the maximal run that starts at i
run_end(s, i) ==
    CHOOSE j \in i..Len(s) :
        /\ \A k \in i..j : in_class(s[k])
        /\ j = Len(s) \/ ~in_class(s[j + 1])

\* the maximal runs of class characters of s, in text order
MaximalRuns(s) ==
    LET st == sorted(run_starts(s))
    IN [k \in 1..Len(st) |-> SubSeq(s, st[k], run_end(s, st[k]))]

\* C10: the tokenizer returns, in text order, exactly the maximal runs of
\* class characters of the lower-cased text, whatever stands next to a run.
C10_TokensAreMaximalRuns ==
    tokens # None => tokens[1] = MaximalRuns(lower(text))


(***************************************************************************)
(* parse_vtt                                                               *)
(***************************************************************************)
MaxBlocks == 2
MaxGap == 2
MaxRawLines == 3

Min(S) == CHOOSE x \in S : \A y \in S : x <= y

\* str.strip()
strip(s) ==
    LET solid == {k \in 1..Len(s) : ~is_space(s[k])}
    IN IF solid = {} THEN <<>> ELSE SubSeq(s, Min(solid), Max(solid))

RECURSIVE split_sep(_, _, _, _)
\* str.split(sep): scan from p for the next occurrence of sep; the part in
\* progress starts at from
split_sep(s, sep, p, from) ==
    IF p + Len(sep) - 1 > Len(s) THEN <<SubSeq(s, from, Len(s))>>
    ELSE IF SubSeq(s, p, p + Len(sep) - 1) = sep
         THEN <<SubSeq(s, from, p - 1)>> \o split_sep(s, sep, p + Len(sep), p + Len(sep))
         ELSE split_sep(s, sep, p + 1, from)

split_on(s, sep) == split_sep(s, sep, 1, 1)

RECURSIVE join_flat(_, _)
\* join with the separator left out
join_flat(sep, parts) ==
    IF parts = <<>> THEN <<>> ELSE Head(parts) \o join_flat(sep, Tail(parts))

RECURSIVE join(_, _)
\* sep.join(parts)
join(sep, parts) ==
    IF parts = <<>> THEN <<>>
    ELSE IF Len(parts) = 1 THEN Head(parts)
         ELSE Head(parts) \o sep \o join(sep, Tail(parts))

\* ' --> '
arrow == <<" ", "-", "-", ">", " ">>

\* content[idx], idx counted from 0
line_at(lines, idx) == lines[idx + 1]

blank_at(lines, idx) == strip(line_at(lines, idx)) = <<>>

RECURSIVE skip_blank(_, _)
\* while idx < len(content) and content[idx].strip() == "": idx += 1
skip_blank(lines, idx) ==
    IF idx < Len(lines) /\ blank_at(lines, idx) THEN skip_blank(lines, idx + 1) ELSE idx

RECURSIVE text_end(_, _)
\* while idx < len(content) and content[idx].strip() != "": idx += 1
text_end(lines, idx) ==
    IF idx < Len(lines) /\ ~blank_at(lines, idx) THEN text_end(lines, idx + 1) ELSE idx

\* how a call ends: it raises and returns nothing, or returns a list
Raised == [raised |-> TRUE, returned |-> None]

Returned(v) == [raised |-> FALSE, returned |-> Some(v)]

RECURSIVE parse_blocks(_, _, _)
\* the main loop of parse_vtt from idx on, subtitles collected so far
parse_blocks(lines, idx, subtitles) ==
    IF idx >= Len(lines) THEN Returned(subtitles)
    ELSE IF blank_at(lines, idx) THEN parse_blocks(lines, idx + 1, subtitles)
    ELSE LET parts == split_on(strip(line_at(lines, idx)), arrow)
             stop == text_end(lines, idx + 1)
             text_lines == [k \in 1..(stop - idx - 1) |-> strip(line_at(lines, idx + k))]
         IN \* start, end = ...: unpacking anything but two parts raises ValueError
            IF Len(parts) # 2 THEN Raised
            ELSE parse_blocks(lines, stop,
                     Append(subtitles,
                            [start_time |-> parts[1], end_time |-> parts[2],
                             text |-> join(<<" ">>, text_lines)]))

\* parse_vtt on a file whose lines (f.read().splitlines()) are lines: line 0
\* is skipped, then the blank lines that follow it
parse_vtt(lines) == parse_blocks(lines, skip_blank(lines, 1), <<>>)

(***************************************************************************)
(* Caption files.  A laid-out file is written from a header line, a run of *)
(* blank lines and blocks, each a timing line, text lines and the blank    *)
(* lines after it; a raw file is any short sequence of lines.              *)
(***************************************************************************)
\* 0:00:01.000, 0:00:02,500 and 12:34:56.789
ts1 == <<"0", ":", "0", "0", ":", "0", "1", ".", "0", "0", "0">>

ts2 == <<"0", ":", "0", "0", ":", "0", "2", ",", "5", "0", "0">>

ts3 == <<"1", "2", ":", "3", "4", ":", "5", "6", ".", "7", "8", "9">>

\* timing lines, with the whitespace around them
Timings ==
    {[start |-> ts1, end |-> ts2, pad |-> <<>>],
     [start |-> ts2, end |-> ts3, pad |-> <<" ">>]}

\* text lines: "hi" (written with whitespace around it) and "yo u"
txtHi == [core |-> <<"h", "i">>, pad |-> <<" ">>]

txtYou == [core |-> <<"y", "o", " ", "u">>, pad |-> <<>>]

\* the text lines of a block
TextBlocks == {<<>>, <<txtHi>>, <<txtYou, txtHi>>}

\* the header line: WEBVTT, or an empty first line
Headers == {<<"W", "E", "B", "V", "T", "T">>, <<>>}

\* the k-th blank line of a run: empty, or whitespace only
BlankLine(k) == IF k % 2 = 1 THEN <<>> ELSE <<" ", "\t">>

\* a run of n blank lines
BlankRun(n) == [k \in 1..n |-> BlankLine(k)]

Blocks == [timing : Timings, texts : TextBlocks, gap : 0..MaxGap]

\* every block but the last one is followed by at least one blank line
Layouts ==
    {l \in [header : Headers, pre : 0..MaxGap,
            blocks : UNION {[1..n -> Blocks] : n \in 0..MaxBlocks}] :
        \A k \in 1..(Len(l.blocks) - 1) : l.blocks[k].gap >= 1}

Padded(x, pad) == pad \o x \o pad

\* the lines of one block
BlockLines(b) ==
    <<Padded(b.timing.start \o arrow \o b.timing.end, b.timing.pad)>>
        \o [k \in 1..Len(b.texts) |-> Padded(b.texts[k].core, b.texts[k].pad)]
        \o BlankRun(b.gap)

RECURSIVE BlocksLines(_)
BlocksLines(bs) ==
    IF bs = <<>> THEN <<>> ELSE BlockLines(Head(bs)) \o BlocksLines(Tail(bs))

\* the lines of a laid-out file
Render(l) == <<l.header>> \o BlankRun(l.pre) \o BlocksLines(l.blocks)

\* lines of raw files: WEBVTT, blank, a timing line, "x --> y", "nope",
\* "a --> b --> c", " hi "
RawLines ==
    {<<"W", "E", "B", "V", "T", "T">>, <<>>,
     ts1 \o arrow \o ts2,
     <<"x">> \o arrow \o <<"y">>,
     <<"n", "o", "p", "e">>,
     <<"a">> \o arrow \o <<"b">> \o arrow \o <<"c">>,
     <<" ", "h", "i", " ">>}

RawFiles == UNION {[1..n -> RawLines] : n \in 0..MaxRawLines}

InitVtt ==
    /\ InitSearch
    /\ InitBuildIdle
    /\ InitLines
    /\ InitTextIdle
    /\ InitCorpusIdle
    /\ InitOffsetIdle
    /\ parsed = None
    /\ \/ \E l \in Layouts : layout = Some(l) /\ content = Render(l)
       \/ layout = None /\ content \in RawFiles

\* parse_vtt(file_path) on the file
ParseFile ==
    /\ parsed = None
    /\ parsed' = Some(parse_vtt(content))
    /\ UNCHANGED <<searchVars, textVars, corpusVars, offsetVars, content, layout, buildVars, linesVars>>

NextVtt == ParseFile

SpecVtt == InitVtt /\ [][NextVtt]_vars


(***************************************************************************)
(* Claims about parse_vtt, checked under SpecVtt.                          *)
(***************************************************************************)
Digits == {"0", "1", "2", "3", "4", "5", "6", "7", "8", "9"}

\* two digits, 00 to 59
IsSixty(s) == Len(s) = 2 /\ s[1] \in {"0", "1", "2", "3", "4", "5"} /\ s[2] \in Digits

\* the grammar HH:MM:SS(,|.)mmm, HH of any width
IsTimestamp(s) ==
    \E h \in 1..Len(s) :
        /\ Len(s) = h + 10
        /\ \A k \in 1..h : s[k] \in Digits
        /\ s[h + 1] = ":"
        /\ IsSixty(SubSeq(s, h + 2, h + 3))
        /\ s[h + 4] = ":"
        /\ IsSixty(SubSeq(s, h + 5, h + 6))
        /\ s[h + 7] \in {",", "."}
        /\ \A k \in (h + 8)..(h + 10) : s[k] \in Digits

\* a trimmed line of the form <start> --> <end>, both sides timestamps
IsTimingLine(s) ==
    \E k \in 1..Len(s) :
        /\ IsTimestamp(SubSeq(s, 1, k))
        /\ SubSeq(s, k + 1, k + 5) = arrow
        /\ IsTimestamp(SubSeq(s, k + 6, Len(s)))

\* the lines in timing-line position (counted from 0): the first non-blank
\* line after the header line, and every non-blank line after a blank one
TimingPositions(lines) ==
    {k \in 1..(Len(lines) - 1) :
        ~blank_at(lines, k) /\ (k = 1 \/ blank_at(lines, k - 1))}

\* C8: parse_vtt fails with an error, returning no cues at all, whenever a
\* line in timing-line position is not of the form <start> --> <end> with
\* both sides timestamps of the grammar HH:MM:SS(,|.)mmm.
C8_MalformedTimingFails ==
    parsed # None =>
        ((\E k \in TimingPositions(content) : ~IsTimingLine(strip(line_at(content, k))))
            => parsed[1] = Raised)

\* the texts of a block's lines, joined with single spaces
RECURSIVE SpaceJoined(_)
SpaceJoined(texts) ==
    IF texts = <<>> THEN <<>>
    ELSE IF Len(texts) = 1 THEN texts[1].core
         ELSE texts[1].core \o <<" ">> \o SpaceJoined(Tail(texts))

\* one cue per block of the layout, in file order
ExpectedCues(l) ==
    [k \in 1..Len(l.blocks) |->
        [start_time |-> l.blocks[k].timing.start,
         end_time |-> l.blocks[k].timing.end,
         text |-> SpaceJoined(l.blocks[k].texts)]]

\* C9: for a well-formed caption file (one header line, blank lines, then
\* blocks of one timing line followed by text lines, each block but the last
\* followed by one or more blank lines), parse_vtt returns exactly one cue per
\* timing line, in file order, whose text is the block's trimmed text lines
\* joined with a single space; a block without text lines yields a cue with
\* empty text, and a file with only the preamble yields the empty sequence.
C9_WellFormedFileParses ==
    (layout # None /\ parsed # None) => parsed[1] = Returned(ExpectedCues(layout[1]))

\* C9 witness: a parsed file of two blocks, one without text lines and one
\* with two, that returned two cues.
C9_Witness ==
    /\ layout # None
    /\ parsed # None
    /\ Len(layout[1].blocks) = 2
    /\ layout[1].blocks[1].texts = <<>>
    /\ Len(layout[1].blocks[2].texts) = 2
    /\ layout[1].blocks[1].gap = 2
    /\ parsed[1].raised = FALSE
    /\ Len(parsed[1].returned[1]) = 2
    /\ parsed[1].returned[1][1].text = <<>>


(***************************************************************************)
(* build_index and read_corpus                                             *)
(***************************************************************************)
MaxFileLines == 11
MaxCorpusDocs == 2

\* find(MEDIA_DIR, SUBS): a.vtt and b.srt
Files == <<<<"a", ".", "v", "t", "t">>, <<"b", ".", "s", "r", "t">>>>

\* lines as slurp_lines returns them, newline included: an empty line, "x"
\* and "0x"
FileLines == {<<"\n">>, <<"x", "\n">>, <<"0", "x", "\n">>}

digit_char(d) ==
    CASE d = 0 -> "0" [] d = 1 -> "1" [] d = 2 -> "2" [] d = 3 -> "3" [] d = 4 -> "4"
      [] d = 5 -> "5" [] d = 6 -> "6" [] d = 7 -> "7" [] d = 8 -> "8" [] d = 9 -> "9"

RECURSIVE str(_)
\* str(i) of a non-negative int: its decimal digits
str(i) == IF i < 10 THEN <<digit_char(i)>> ELSE Append(str(i \div 10), digit_char(i % 10))

\* hashlib.sha256(f"{file}{i}{line}".encode()).hexdigest(); the hash is taken
\* as collision-free, so the id stands for the string that is hashed
document_id(file, i, line) == file \o str(i) \o line

InitCorpus ==
    /\ InitSearch
    /\ InitBuildIdle
    /\ InitLines
    /\ InitTextIdle
    /\ InitVttIdle
    /\ InitOffsetIdle
    /\ builder \in {"build_index", "read_corpus"}
    /\ file_no = 1
    /\ line_no = 0
    /\ corpus = <<>>
    /\ doc_id = 0

\* one round of the inner loop of build_index: line i of the current file
IndexLine ==
    /\ builder = "build_index"
    /\ file_no <= Len(Files)
    /\ line_no < MaxFileLines
    /\ \E raw \in FileLines :
         LET line == strip(raw)
         IN /\ line # <<>> => Len(corpus) < MaxCorpusDocs
            /\ corpus' = IF line # <<>>
                         THEN Append(corpus,
                                  [id |-> document_id(Files[file_no], line_no, line),
                                   title |-> Files[file_no], content |-> line])
                         ELSE corpus
    /\ line_no' = line_no + 1
    /\ UNCHANGED <<builder, file_no, doc_id>>
    /\ UNCHANGED <<searchVars, textVars, vttVars, offsetVars, buildVars, linesVars>>

\* one round of the inner loop of read_corpus
ReadCorpusLine ==
    /\ builder = "read_corpus"
    /\ file_no <= Len(Files)
    /\ line_no < MaxFileLines
    /\ \E raw \in FileLines :
         LET line == strip(raw)
         IN /\ line # <<>> => Len(corpus) < MaxCorpusDocs
            /\ corpus' = IF line # <<>>
                         THEN Append(corpus,
                                  [id |-> doc_id, title |-> Files[file_no], content |-> line])
                         ELSE corpus
            /\ doc_id' = IF line # <<>> THEN doc_id + 1 ELSE doc_id
    /\ line_no' = line_no + 1
    /\ UNCHANGED <<builder, file_no>>
    /\ UNCHANGED <<searchVars, textVars, vttVars, offsetVars, buildVars, linesVars>>

\* the current file has no more lines: the outer loop takes the next file
EndOfFile ==
    /\ file_no <= Len(Files)
    /\ file_no' = file_no + 1
    /\ line_no' = 0
    /\ UNCHANGED <<builder, corpus, doc_id>>
    /\ UNCHANGED <<searchVars, textVars, vttVars, offsetVars, buildVars, linesVars>>

NextCorpus == IndexLine \/ ReadCorpusLine \/ EndOfFile

SpecCorpus == InitCorpus /\ [][NextCorpus]_vars

\* C5: within one corpus build no two emitted documents have the same id
\* (for build_index, with the hash taken as collision-free; for read_corpus,
\* by the sequential counter).
C5_UniqueIds ==
    \A j, k \in DOMAIN corpus : j # k => corpus[j].id # corpus[k].id

(***************************************************************************)
(* SearchResult.offset                                                     *)
(***************************************************************************)
\* limit: int = 1000 of UttaleAPI.search_text
search_limit == 1000

MaxSmallFile == 3
MaxOver == 2

\* the numbers of cues a file is given: a few, and around the limit
FileSizes == (0..MaxSmallFile) \cup {search_limit + d - 1 : d \in 0..MaxOver}

\* the cues of the file in time order; cue k (from 0) starts at time k
file_cues(n) == [k \in 1..n |-> [start |-> k - 1]]

\* the server's answer to /uttale/Search with q = "" and scope = the file:
\* the cues of the file in time order, at most limit of them
server_search(n, limit) == SubSeq(file_cues(n), 1, IF n < limit THEN n ELSE limit)

\* UttaleAPI.search_text(query="", scope=filename): the results of the
\* response, [] when the request failed
search_text(n, ok) == IF ok THEN server_search(n, search_limit) ELSE <<>>

\* for i, result in enumerate(results): if result.start == self.start:
\* return i; return 0
offset(results, start) ==
    LET same == {i \in 1..Len(results) : results[i].start = start}
    IN IF same = {} THEN 0 ELSE Min(same) - 1

InitOffset ==
    /\ InitSearch
    /\ InitBuildIdle
    /\ InitLines
    /\ InitTextIdle
    /\ InitVttIdle
    /\ InitCorpusIdle
    /\ n_cues \in FileSizes
    /\ hit = 0
    /\ reached = TRUE
    /\ offset_value = None

\* result.offset() on a search result made from cue h of the file (h = -1: a
\* result whose start no cue of the file has)
Offset ==
    /\ offset_value = None
    /\ \E h \in -1..(n_cues - 1), ok \in BOOLEAN :
         /\ hit' = h
         /\ reached' = ok
         /\ offset_value' = Some(offset(search_text(n_cues, ok), h))
    /\ UNCHANGED n_cues
    /\ UNCHANGED <<searchVars, textVars, vttVars, corpusVars, buildVars, linesVars>>

NextOffset == Offset

SpecOffset == InitOffset /\ [][NextOffset]_vars

slurp_lines(file_lines) == [k \in 1..Len(file_lines) |-> file_lines[k] \o <<"\n">>]

RECURSIVE file_docs(_, _, _, _, _)
\* for i, line in enumerate(slurp_lines(...)) from i on, in the build b: every
\* line that is non-empty once stripped is appended as a document
file_docs(b, file, raw, i, acc) ==
    IF i >= Len(raw) THEN acc
    ELSE LET line == strip(raw[i + 1])
         IN file_docs(b, file, raw, i + 1,
                IF line # <<>>
                THEN Append(acc,
                         [id |-> IF b = "read_corpus" THEN Len(acc)
                                 ELSE document_id(file, i, line),
                          title |-> file, content |-> line])
                ELSE acc)

\* build_index / read_corpus with the caption file as the only file found
BuildFile ==
    /\ built = None
    /\ \E b \in {"build_index", "read_corpus"} :
         built' = Some([builder |-> b,
                        docs |-> file_docs(b, Files[1], slurp_lines(content), 0, <<>>)])
    /\ UNCHANGED <<searchVars, textVars, vttVars, corpusVars, offsetVars, linesVars>>

NextBuild == ParseFile \/ BuildFile

SpecBuild == InitVtt /\ [][NextBuild]_vars

HasText(cue) == cue.text # <<>>

\* the texts of the cues the parser yields for the file that are not empty
\* (none when the parse fails)
CueTexts ==
    IF parsed[1].raised THEN <<>>
    ELSE LET cues == SelectSeq(parsed[1].returned[1], HasText)
         IN [k \in 1..Len(cues) |-> cues[k].text]

\* C11: the corpus build emits exactly one Document per parsed cue with
\* non-empty text and nothing else: the texts of the Documents built from a
\* file are, in order, the texts of the cues the parser yields for it.
C11_OneDocumentPerCue ==
    (parsed # None /\ built # None) =>
        [k \in 1..Len(built[1].docs) |-> built[1].docs[k].content] = CueTexts


(***************************************************************************)
(* Search.show                                                             *)
(***************************************************************************)
\* [self.docs[doc_id] for doc_id in doc_ids]: a missing key raises KeyError
show(ds, doc_ids) ==
    IF \E i \in DOMAIN doc_ids : doc_ids[i] \notin DOMAIN ds
    THEN Raised
    ELSE Returned([i \in DOMAIN doc_ids |-> ds[doc_ids[i]]])

\* C12: after any sequence of fit and transform calls on one Search object,
\* fit called more than once included, every id transform returns is a key of
\* the current document store, so show(transform(q)) never fails.
C12_ShowNeverFails ==
    query # None =>
        /\ Ids(result[1]) \subseteq DOMAIN docs
        /\ show(docs, result[1]) # Raised


(***************************************************************************)
(* class SubtitleLines, driven by play_line_by_index and player_update.    *)
(* A playback time is a float; the model counts it in whole ticks.         *)
(***************************************************************************)
MaxSubLines == 3
MaxTime == 3

Times == 0..MaxTime

\* what the last call was: its name, its argument and whether it raised
\* IndexError
Call(op, at, raised) == Some([op |-> op, at |-> at, raised |-> raised])

RECURSIVE bisect_left(_, _, _, _)
\* bisect.bisect_left(a, x) with lo and hi counted from 0
bisect_left(a, x, lo, hi) ==
    IF lo < hi
    THEN LET mid == (lo + hi) \div 2
         IN IF a[mid + 1] < x THEN bisect_left(a, x, mid + 1, hi)
            ELSE bisect_left(a, x, lo, mid)
    ELSE lo

\* the index activate takes for a float: max(0, bisect_left(self.starts, at)-1)
time_index(at) ==
    LET b == bisect_left(starts, at, 0, Len(starts))
    IN IF b - 1 > 0 THEN b - 1 ELSE 0

\* the body of activate once index is known: self.lines[self.current_line]
\* raises IndexError when current_line is no index of lines; otherwise the
\* class is removed there and, for a valid index, added at index
activate(op, at, index) ==
    IF current_line >= Len(sub_lines)
    THEN /\ call' = Call(op, at, TRUE)
         /\ UNCHANGED <<sub_lines, starts, current_line>>
    ELSE LET cleared == [sub_lines EXCEPT ![current_line + 1] = FALSE]
             valid == 0 <= index /\ index < Len(sub_lines)
         IN /\ sub_lines' = IF valid THEN [cleared EXCEPT ![index + 1] = TRUE] ELSE cleared
            /\ current_line' = IF valid THEN index ELSE current_line
            /\ call' = Call(op, at, FALSE)
            /\ UNCHANGED starts

\* SubtitleLines.reset()
reset ==
    /\ sub_lines' = <<>>
    /\ starts' = <<>>
    /\ current_line' = 0
    /\ call' = Call("reset", 0, FALSE)
    /\ UNCHANGED <<searchVars, textVars, vttVars, corpusVars, offsetVars, buildVars>>

\* SubtitleLines.add(line, start) with a new label, as draw() calls it for the
\* subtitles in time order
add ==
    /\ Len(sub_lines) < MaxSubLines
    /\ \E start \in Times :
         /\ starts # <<>> => starts[Len(starts)] <= start
         /\ starts' = Append(starts, start)
         /\ call' = Call("add", start, FALSE)
    /\ sub_lines' = Append(sub_lines, FALSE)
    /\ UNCHANGED current_line
    /\ UNCHANGED <<searchVars, textVars, vttVars, corpusVars, offsetVars, buildVars>>

\* play_line_by_index(index) for index = current_line - 1, current_line or
\* current_line + 1: the index is clamped to the subtitles, then activated
play_line_by_index ==
    /\ \E d \in {-1, 0, 1} :
         LET least == IF current_line + d < Len(sub_lines) - 1
                      THEN current_line + d ELSE Len(sub_lines) - 1
             index == IF least > 0 THEN least ELSE 0
         IN activate("activate_index", index, index)
    /\ UNCHANGED <<searchVars, textVars, vttVars, corpusVars, offsetVars, buildVars>>

\* player_update: activate(at) with the player's position
player_update ==
    /\ \E at \in Times : activate("activate_time", at, time_index(at))
    /\ UNCHANGED <<searchVars, textVars, vttVars, corpusVars, offsetVars, buildVars>>

InitSubLines ==
    /\ InitSearch
    /\ InitTextIdle
    /\ InitVttIdle
    /\ InitCorpusIdle
    /\ InitOffsetIdle
    /\ InitBuildIdle
    /\ InitLines

NextLines == reset \/ add \/ play_line_by_index \/ player_update

SpecLines == InitSubLines /\ [][NextLines]_vars

\* the last line (from 0) whose start is at most t, or 0 when t is before
\* every start
LineAt(t) ==
    LET upto == {k \in 1..Len(starts) : starts[k] <= t}
    IN IF upto = {} THEN 0 ELSE Max(upto) - 1

\* no two lines have the same start
DistinctStarts == \A j, k \in 1..Len(starts) : j < k => starts[j] < starts[k]

\* C13: activate called with a playback time t marks as active, and sets
\* current_line to, the last line whose start is less than or equal to t, or
\* line 0 when t is before every start; a time equal to the start of line k
\* activates line k (stated here for lines whose starts are all different).
C13_TimeActivatesLineAtTime ==
    (call # None /\ call[1].op = "activate_time" /\ ~call[1].raised /\ DistinctStarts) =>
        /\ current_line = LineAt(call[1].at)
        /\ sub_lines[LineAt(call[1].at) + 1]

\* C14: for any sequence of reset, add, index-based and time-based activate,
\* sequences with no line added since the last reset included, no call
\* indexes lines outside 0..len(lines)-1, current_line stays a valid index
\* when lines is non-empty, and at most one line carries the active mark.
C14_LinesStayConsistent ==
    /\ call # None => ~call[1].raised
    /\ sub_lines # <<>> => (0 <= current_line /\ current_line < Len(sub_lines))
    /\ Cardinality({k \in 1..Len(sub_lines) : sub_lines[k]}) <= 1

=============================================================================
